---- MODULE Spec2Model ----
(***************************************************************************)
(* Model of src/directories.py (AIMS directory generator).                *)
(*                                                                         *)
(* Part 1: the workspace builder (safe_makedir, create_readme_if_missing,  *)
(*         create_directory_structure) over an explicit filesystem.        *)
(* Part 2: the student parsers (clean_text, capitalize_name,               *)
(*         parse_student_file, parse_manual_students) over texts that are  *)
(*         sequences of characters.                                        *)
(***************************************************************************)
EXTENDS Integers, Sequences, FiniteSets, TLC

VARIABLES
    fs,        \* the filesystem: path -> entry (none / dir / file with content)
    prev,      \* record of the generation run before the last one
    last,      \* record of the last generation run
    nruns,     \* number of generation runs so far
    nfaults,   \* number of creation calls the environment has refused so far
    upload,    \* the bytes of the uploaded student file
    typed,     \* the text typed into the manual student list
    parsed,    \* what the last parser run returned and reported
    cleaned,   \* what clean_text returned on the typed text, once it has run
    session,   \* st.session_state
    tree       \* the lines of the folder tree last shown

vars == <<fs, prev, last, nruns, nfaults, upload, typed, parsed, cleaned, session, tree>>

---------------------------------------------------------------------------
(* Bounds *)

NStudents == 2     \* distinct student records available as input
NCourses  == 2     \* distinct course records available as input
MaxLen    == 2     \* longest student list / course list handed to a run
MaxFail   == 1     \* most creation calls the environment refuses in one behaviour
MaxPre    == 3     \* deepest entry already present under the root at start
MaxRuns   == 2     \* generation runs in one behaviour
MaxLines  == 2     \* most lines of a text handed to a parser
UIMaxFail == 0     \* most creation calls refused in a run started from a page

---------------------------------------------------------------------------
(* Records: the example data of main() *)

StudentPool ==
    << <<"Mutie", "Josiah">>, <<"Kanziga", "Belise">>, <<"Uwituze", "Djadida">>,
       <<"Nizeyimana", "Patrick">>, <<"Kejang", "Kutlo">> >>

CoursePool ==
    << "Python Programming", "Data Science", "Machine Learning",
       "Statistical Methods", "Research Project" >>

Min(a, b) == IF a < b THEN a ELSE b
Range(q) == { q[i] : i \in DOMAIN q }

Students == { StudentPool[i] : i \in 1..Min(NStudents, Len(StudentPool)) }
Courses  == { CoursePool[i] : i \in 1..Min(NCourses, Len(CoursePool)) }

SeqsUpTo(S, n) == UNION { [1..k -> S] : k \in 0..n }

\* the subsets of S with at most k elements
RECURSIVE SubsetsUpTo(_, _)
SubsetsUpTo(S, k) ==
    IF k = 0
    THEN {{}}
    ELSE LET T == SubsetsUpTo(S, k - 1)
         IN  T \cup { t \cup {x} : t \in T, x \in S }

StudentLists == SeqsUpTo(Students, MaxLen)
CourseLists  == SeqsUpTo(Courses, MaxLen)

---------------------------------------------------------------------------
(* Filesystem *)

BaseFolder == "AIMS-Rwanda-Workspace"
ReadmeName == "README.txt"

\* f"{last_name}, {first_name}"
StudentFolder(s) == s[1] \o ", " \o s[2]

\* os.path.join: a path is the sequence of its segments
Join(p, name) == Append(p, name)
Parent(p) == SubSeq(p, 1, Len(p) - 1)

RootPath == <<BaseFolder>>
StudentPath(s) == Join(RootPath, StudentFolder(s))
CoursePath(s, c) == Join(StudentPath(s), c)
ReadmePath(s, c) == Join(CoursePath(s, c), ReadmeName)

Paths ==
    {RootPath}
    \cup { StudentPath(s) : s \in Students }
    \cup { CoursePath(s, c) : s \in Students, c \in Courses }
    \cup { ReadmePath(s, c) : s \in Students, c \in Courses }

None == [kind |-> "none", content |-> ""]
Dir == [kind |-> "dir", content |-> ""]
File(content) == [kind |-> "file", content |-> content]

\* f"Course: {course_name}\nStudent: {first_name} {last_name}\n\nThis directory ..."
ReadmeContent(course, first, lastn) ==
    "Course: " \o course \o "\nStudent: " \o first \o " " \o lastn
        \o "\n\nThis directory is for coursework and projects."

\* The working directory, parent of the base folder, always is a directory.
IsDir(f, p) == Len(p) = 0 \/ (p \in DOMAIN f /\ f[p].kind = "dir")

\* os.path.exists: the entry is there and every ancestor is a directory
RECURSIVE os_path_exists(_, _)
os_path_exists(f, p) ==
    \/ Len(p) = 0
    \/ /\ p \in DOMAIN f
       /\ f[p].kind # "none"
       /\ IsDir(f, Parent(p))
       /\ os_path_exists(f, Parent(p))

\* os.mkdir(p); faulty: the environment refuses it (OSError)
os_mkdir(f, p, faulty) ==
    IF faulty \/ ~IsDir(f, Parent(p))
    THEN [fs |-> f, raised |-> TRUE]
    ELSE IF f[p].kind # "none"
    THEN [fs |-> f, raised |-> TRUE]                  \* FileExistsError
    ELSE [fs |-> [f EXCEPT ![p] = Dir], raised |-> FALSE]

\* os.makedirs(p, exist_ok=True): missing ancestors first, then the leaf;
\* a FileExistsError of the leaf is swallowed when the leaf is a directory
RECURSIVE os_makedirs(_, _, _)
os_makedirs(f, p, faulty) ==
    LET head == Parent(p)
        up == IF Len(head) > 0 /\ ~os_path_exists(f, head)
              THEN os_makedirs(f, head, FALSE)
              ELSE [fs |-> f, raised |-> FALSE]
    IN  IF up.raised
        THEN up
        ELSE LET r == os_mkdir(up.fs, p, faulty)
             IN  IF r.raised /\ ~faulty /\ IsDir(up.fs, p)
                 THEN [fs |-> up.fs, raised |-> FALSE]
                 ELSE r

---------------------------------------------------------------------------
(* The builder.  A build state st is [fs, results, raised, calls]: the     *)
(* filesystem, the counters, the set of calls that raised (one st.error    *)
(* each) and the number of creation calls (os.makedirs, open, f.write)     *)
(* made so far in the run.  The environment's faults are the set K of      *)
(* ordinals of the creation calls it refuses with an OSError.              *)

\* sequencing: the value of v, computed once, handed to F
Then(v, F(_)) == CHOOSE out \in { F(x) : x \in {v} } : TRUE

Return(st, f, calls, raised, ok) ==
    [fs |-> f, results |-> st.results, raised |-> st.raised \cup raised,
     calls |-> calls, ok |-> ok]

\* a safe_makedir without the os.path.exists test: makedirs(exist_ok=True) and True
safe_makedir_unchecked(st, path, op, K) ==
    Then(os_makedirs(st.fs, path, (st.calls + 1) \in K), LAMBDA r :
        IF r.raised
        THEN Return(st, r.fs, st.calls + 1, {op}, FALSE)
        ELSE Return(st, r.fs, st.calls + 1, {}, TRUE))

safe_makedir(st, path, op, K) ==
    IF os_path_exists(st.fs, path)
    THEN Return(st, st.fs, st.calls, {}, FALSE)
    ELSE Then(os_makedirs(st.fs, path, (st.calls + 1) \in K), LAMBDA r :
             IF r.raised
             THEN Return(st, r.fs, st.calls + 1, {op}, FALSE)
             ELSE Return(st, r.fs, st.calls + 1, {}, TRUE))

\* a create_readme_if_missing without the os.path.exists test, opening with 'a'
create_readme_appending(st, path, course_name, first_name, last_name, op, K) ==
    LET readme_path == Join(path, ReadmeName)
    IN  IF (st.calls + 1) \in K \/ ~os_path_exists(st.fs, path) \/ ~IsDir(st.fs, path)
           \/ IsDir(st.fs, readme_path)
        THEN Return(st, st.fs, st.calls + 1, {op}, FALSE)
        ELSE Return(st, [st.fs EXCEPT ![readme_path] =
                            File(@.content \o ReadmeContent(course_name, first_name, last_name))],
                    st.calls + 2, {}, TRUE)

\* a create_readme_if_missing without the os.path.exists test, opening with 'w'
create_readme_overwriting(st, path, course_name, first_name, last_name, op, K) ==
    LET readme_path == Join(path, ReadmeName)
    IN  IF (st.calls + 1) \in K \/ ~os_path_exists(st.fs, path) \/ ~IsDir(st.fs, path)
           \/ IsDir(st.fs, readme_path)
        THEN Return(st, st.fs, st.calls + 1, {op}, FALSE)
        ELSE Return(st, [st.fs EXCEPT ![readme_path] =
                            File(ReadmeContent(course_name, first_name, last_name))],
                    st.calls + 2, {}, TRUE)

\* a create_readme_if_missing that opens the file and never writes to it
create_readme_unwritten(st, path, course_name, first_name, last_name, op, K) ==
    LET readme_path == Join(path, ReadmeName)
    IN  IF os_path_exists(st.fs, readme_path)
        THEN Return(st, st.fs, st.calls, {}, FALSE)
        ELSE IF (st.calls + 1) \in K \/ ~os_path_exists(st.fs, path) \/ ~IsDir(st.fs, path)
        THEN Return(st, st.fs, st.calls + 1, {op}, FALSE)
        ELSE Return(st, [st.fs EXCEPT ![readme_path] = File("")], st.calls + 1, {}, TRUE)

create_readme_if_missing(st, path, course_name, first_name, last_name, op, K) ==
    LET readme_path == Join(path, ReadmeName)
    IN  IF os_path_exists(st.fs, readme_path)
        THEN Return(st, st.fs, st.calls, {}, FALSE)
        ELSE IF (st.calls + 1) \in K \/ ~os_path_exists(st.fs, path) \/ ~IsDir(st.fs, path)
        THEN \* open(readme_path, 'w') raises: nothing is created
             Return(st, st.fs, st.calls + 1, {op}, FALSE)
        ELSE IF (st.calls + 2) \in K
        THEN \* f.write raises: the file open() created stays, empty
             Return(st, [st.fs EXCEPT ![readme_path] = File("")], st.calls + 2, {op}, FALSE)
        ELSE Return(st, [st.fs EXCEPT ![readme_path] =
                            File(ReadmeContent(course_name, first_name, last_name))],
                    st.calls + 2, {}, TRUE)

\* Count with the test inverted
CountInverted(st, created, skipped) ==
    [fs |-> st.fs, raised |-> st.raised, calls |-> st.calls,
     results |-> IF ~st.ok THEN [st.results EXCEPT ![created] = @ + 1]
                           ELSE [st.results EXCEPT ![skipped] = @ + 1]]

\* the if without its else: a unit not created is counted nowhere
CountCreatedOnly(st, created, skipped) ==
    [fs |-> st.fs, raised |-> st.raised, calls |-> st.calls,
     results |-> IF st.ok THEN [st.results EXCEPT ![created] = @ + 1]
                          ELSE st.results]

\* results[created] += 1 if ok else results[skipped] += 1
Count(st, created, skipped) ==
    [fs |-> st.fs, raised |-> st.raised, calls |-> st.calls,
     results |-> IF st.ok THEN [st.results EXCEPT ![created] = @ + 1]
                          ELSE [st.results EXCEPT ![skipped] = @ + 1]]

\* one iteration of "for course in courses"
CourseStep(st, student_path, last_name, first_name, course, i, j, K) ==
    LET course_path == Join(student_path, course)
    IN  Then(safe_makedir(st, course_path, <<"course", i, j>>, K), LAMBDA d :
        Then(create_readme_if_missing(
                 Count(d, "course_folders_created", "course_folders_skipped"),
                 course_path, course, first_name, last_name, <<"readme", i, j>>, K),
             LAMBDA r : Count(r, "readmes_created", "readmes_skipped")))

\* a course loop that an exception ends: no try/except around the creations
RECURSIVE CourseLoopAborting(_, _, _, _, _, _, _, _)
CourseLoopAborting(st, student_path, last_name, first_name, courses, i, j, K) ==
    IF j > Len(courses) \/ st.raised # {}
    THEN st
    ELSE Then(CourseStep(st, student_path, last_name, first_name, courses[j], i, j, K),
              LAMBDA st1 :
              CourseLoopAborting(st1, student_path, last_name, first_name, courses,
                                 i, j + 1, K))

RECURSIVE CourseLoop(_, _, _, _, _, _, _, _)
CourseLoop(st, student_path, last_name, first_name, courses, i, j, K) ==
    IF j > Len(courses)
    THEN st
    ELSE Then(CourseStep(st, student_path, last_name, first_name, courses[j], i, j, K),
              LAMBDA st1 :
              CourseLoop(st1, student_path, last_name, first_name, courses, i, j + 1, K))

\* a student step that leaves a student alone whose folder is already there
StudentStepSkipping(st, student, courses, i, K) ==
    LET student_path == Join(RootPath, StudentFolder(student))
    IN  Then(safe_makedir(st, student_path, <<"student", i, 0>>, K), LAMBDA d :
        IF d.ok
        THEN CourseLoop(Count(d, "students_created", "students_skipped"),
                        student_path, student[1], student[2], courses, i, 1, K)
        ELSE Count(d, "students_created", "students_skipped"))

\* one iteration of "for last_name, first_name in students"
StudentStep(st, student, courses, i, K) ==
    LET last_name == student[1]
        first_name == student[2]
        student_folder == StudentFolder(student)
        student_path == Join(RootPath, student_folder)
    IN  Then(safe_makedir(st, student_path, <<"student", i, 0>>, K), LAMBDA d :
        CourseLoop(Count(d, "students_created", "students_skipped"),
                   student_path, last_name, first_name, courses, i, 1, K))

RECURSIVE StudentLoop(_, _, _, _, _)
StudentLoop(st, students, courses, i, K) ==
    IF i > Len(students)
    THEN st
    ELSE Then(StudentStep(st, students[i], courses, i, K), LAMBDA st1 :
              StudentLoop(st1, students, courses, i + 1, K))

InitialResults(students) ==
    [ students_processed |-> Len(students),
      students_created |-> 0,
      students_skipped |-> 0,
      course_folders_created |-> 0,
      course_folders_skipped |-> 0,
      readmes_created |-> 0,
      readmes_skipped |-> 0 ]

create_directory_structure(f, students, courses, K) ==
    LET st0 == [fs |-> f, results |-> InitialResults(students), raised |-> {}, calls |-> 0]
    IN  Then(safe_makedir(st0, RootPath, <<"root", 0, 0>>, K), LAMBDA d :
        StudentLoop([fs |-> d.fs, results |-> d.results, raised |-> d.raised,
                     calls |-> d.calls], students, courses, 1, K))

Max(S) == IF S = {} THEN 0 ELSE CHOOSE x \in S : \A y \in S : y <= x

\* Every outcome of one run: the run under K, and, while the environment may
\* refuse more calls, the runs that also refuse one later call that K's run makes
RECURSIVE Outcomes(_, _, _, _, _)
Outcomes(f, students, courses, K, more) ==
    Then(create_directory_structure(f, students, courses, K), LAMBDA r :
        {[run |-> r, faults |-> K]} \cup
        IF more = 0
        THEN {}
        ELSE UNION { Outcomes(f, students, courses, K \cup {k}, more - 1) :
                       k \in (Max(K) + 1)..r.calls })

---------------------------------------------------------------------------
(* Text.  A text is a sequence of characters, a character a one-character  *)
(* string; the two non-ASCII characters of the model have names.  An       *)
(* uploaded file is a sequence of bytes.                                   *)

EAcute == "U+00E9"      \* e with acute accent: NFKD gives e + U+0301
Eszett == "U+00DF"      \* sharp s: NFKD leaves it, no ASCII form
Grave  == "U+0060"      \* grave accent, code 96

\* the characters of codes 32..126, in order
Printable ==
    <<
       " ", "!", "\"", "#", "$", "%", "&", "'", "(", ")", "*", "+",
       ",", "-", ".", "/", "0", "1", "2", "3", "4", "5", "6", "7",
       "8", "9", ":", ";", "<", "=", ">", "?", "@", "A", "B", "C",
       "D", "E", "F", "G", "H", "I", "J", "K", "L", "M", "N", "O",
       "P", "Q", "R", "S", "T", "U", "V", "W", "X", "Y", "Z", "[",
       "\\", "]", "^", "_", Grave, "a", "b", "c", "d", "e", "f", "g",
       "h", "i", "j", "k", "l", "m", "n", "o", "p", "q", "r", "s",
       "t", "u", "v", "w", "x", "y", "z", "{", "|", "}", "~" >>

Tab == "\t"
LF == "\n"
CR == "\r"
FF == "\f"

\* chr(n)
CharOfCode(n) ==
    IF n >= 32 /\ n <= 126 THEN Printable[n - 31]
    ELSE IF n = 9 THEN Tab
    ELSE IF n = 10 THEN LF
    ELSE IF n = 12 THEN FF
    ELSE IF n = 13 THEN CR
    ELSE IF n = 233 THEN EAcute
    ELSE IF n = 223 THEN Eszett
    ELSE "U+" \o ToString(n)

\* ord(c), for the characters texts are made of
CodeOf(c) ==
    IF c = Tab THEN 9
    ELSE IF c = LF THEN 10
    ELSE IF c = FF THEN 12
    ELSE IF c = CR THEN 13
    ELSE IF c = EAcute THEN 233
    ELSE IF c = Eszett THEN 223
    ELSE 31 + CHOOSE i \in 1..Len(Printable) : Printable[i] = c

IsAscii(c) == c \in {Tab, LF, FF, CR} \/ \E i \in 1..Len(Printable) : Printable[i] = c

RECURSIVE Flatten(_)
Flatten(ss) == IF ss = <<>> THEN <<>> ELSE Head(ss) \o Flatten(Tail(ss))

\* str.encode('utf-8') and str.encode('latin-1')
EncodeUtf8(t) ==
    Flatten([i \in DOMAIN t |->
        LET n == CodeOf(t[i])
        IN  IF n < 128 THEN <<n>> ELSE <<192 + (n \div 64), 128 + (n % 64)>>])

EncodeLatin1(t) == [i \in DOMAIN t |-> CodeOf(t[i])]

\* bytes.decode('utf-8'): one- and two-byte sequences; anything else is a
\* UnicodeDecodeError (the uploads of the model hold no longer sequences)
RECURSIVE DecodeUtf8(_)
DecodeUtf8(b) ==
    IF b = <<>> THEN [ok |-> TRUE, text |-> <<>>]
    ELSE IF b[1] < 128
    THEN LET r == DecodeUtf8(Tail(b))
         IN  [ok |-> r.ok, text |-> <<CharOfCode(b[1])>> \o r.text]
    ELSE IF /\ b[1] >= 194 /\ b[1] <= 223
            /\ Len(b) >= 2 /\ b[2] >= 128 /\ b[2] <= 191
    THEN LET r == DecodeUtf8(Tail(Tail(b)))
         IN  [ok |-> r.ok,
              text |-> <<CharOfCode((b[1] - 192) * 64 + (b[2] - 128))>> \o r.text]
    ELSE [ok |-> FALSE, text |-> <<>>]

\* bytes.decode('latin-1'): every byte is the character of its code
DecodeLatin1(b) == [ok |-> TRUE, text |-> [i \in DOMAIN b |-> CharOfCode(b[i])]]

\* bytes.decode('cp1252'): five bytes are undefined; 128..159 map elsewhere
Cp1252Undefined == {129, 141, 143, 144, 157}
DecodeCp1252(b) ==
    IF \E i \in DOMAIN b : b[i] \in Cp1252Undefined
    THEN [ok |-> FALSE, text |-> <<>>]
    ELSE [ok |-> TRUE,
          text |-> [i \in DOMAIN b |->
                      IF b[i] >= 128 /\ b[i] <= 159
                      THEN "cp1252+" \o ToString(b[i])
                      ELSE CharOfCode(b[i])]]

Decode(b, encoding) ==
    IF encoding = "utf-8" THEN DecodeUtf8(b)
    ELSE IF encoding = "cp1252" THEN DecodeCp1252(b)
    ELSE DecodeLatin1(b)

Encodings == <<"utf-8", "latin-1", "cp1252", "iso-8859-1">>

\* the loop with 'latin-1', which decodes any bytes, tried before 'utf-8'
RECURSIVE DecodeFromLatin1First(_, _)
DecodeFromLatin1First(b, k) ==
    IF k > Len(Encodings)
    THEN [text |-> DecodeLatin1(b).text, encoding |-> "latin-1 replace"]
    ELSE LET encoding == <<"latin-1", "utf-8", "cp1252", "iso-8859-1">>[k]
             r == Decode(b, encoding)
         IN  IF r.ok THEN [text |-> r.text, encoding |-> encoding]
             ELSE DecodeFromLatin1First(b, k + 1)

\* the "for encoding in encodings" loop and the fallback after it
RECURSIVE DecodeFrom(_, _)
DecodeFrom(b, k) ==
    IF k > Len(Encodings)
    THEN [text |-> DecodeLatin1(b).text, encoding |-> "latin-1 replace"]
    ELSE LET r == Decode(b, Encodings[k])
         IN  IF r.ok THEN [text |-> r.text, encoding |-> Encodings[k]]
             ELSE DecodeFrom(b, k + 1)

---------------------------------------------------------------------------
(* String functions of Python, on character sequences *)

Lowers == SubSeq(Printable, 66, 91)
Uppers == SubSeq(Printable, 34, 59)
Digits == SubSeq(Printable, 17, 26)

IsLower(c) == \E i \in 1..26 : Lowers[i] = c
IsUpper(c) == \E i \in 1..26 : Uppers[i] = c
IsDigit(c) == \E i \in 1..10 : Digits[i] = c
ToLower(c) == IF IsUpper(c) THEN Lowers[CHOOSE i \in 1..26 : Uppers[i] = c] ELSE c
ToUpper(c) == IF IsLower(c) THEN Uppers[CHOOSE i \in 1..26 : Lowers[i] = c] ELSE c

\* str.isspace of one character, and the regular expression \s
IsSpace(c) == c \in {" ", Tab, LF, CR, FF}

\* the string of a character sequence
RECURSIVE Str(_)
Str(t) == IF t = <<>> THEN "" ELSE Head(t) \o Str(Tail(t))

\* str.lower
lower(t) == [i \in DOMAIN t |-> ToLower(t[i])]

\* str.strip
RECURSIVE lstrip(_)
lstrip(t) == IF t # <<>> /\ IsSpace(Head(t)) THEN lstrip(Tail(t)) ELSE t
RECURSIVE rstrip(_)
rstrip(t) ==
    IF t # <<>> /\ IsSpace(t[Len(t)]) THEN rstrip(SubSeq(t, 1, Len(t) - 1)) ELSE t
strip(t) == rstrip(lstrip(t))

\* c in t
HasChar(t, c) == \E i \in DOMAIN t : t[i] = c

\* index of the first c in t, 0 if there is none
RECURSIVE Find(_, _, _)
Find(t, c, i) ==
    IF i > Len(t) THEN 0 ELSE IF t[i] = c THEN i ELSE Find(t, c, i + 1)

\* str.split(sep): the pieces between the separators, empty ones included
RECURSIVE split(_, _)
split(t, sep) ==
    LET k == Find(t, sep, 1)
    IN  IF k = 0 THEN <<t>>
        ELSE <<SubSeq(t, 1, k - 1)>> \o split(SubSeq(t, k + 1, Len(t)), sep)

\* str.split(sep, 1)
split_once(t, sep) ==
    LET k == Find(t, sep, 1)
    IN  IF k = 0 THEN <<t>>
        ELSE <<SubSeq(t, 1, k - 1), SubSeq(t, k + 1, Len(t))>>

\* str.splitlines: breaks at \n, \r, \r\n and \f; no empty last line
IsBreak(c) == c \in {LF, CR, FF}
RECURSIVE FindBreak(_, _)
FindBreak(t, i) ==
    IF i > Len(t) THEN 0 ELSE IF IsBreak(t[i]) THEN i ELSE FindBreak(t, i + 1)
RECURSIVE splitlines(_)
splitlines(t) ==
    IF t = <<>> THEN <<>>
    ELSE LET k == FindBreak(t, 1)
         IN  IF k = 0 THEN <<t>>
             ELSE LET width == IF t[k] = CR /\ k < Len(t) /\ t[k + 1] = LF THEN 2 ELSE 1
                  IN  <<SubSeq(t, 1, k - 1)>> \o splitlines(SubSeq(t, k + width, Len(t)))

\* str.join
RECURSIVE join(_, _)
join(sep, parts) ==
    IF parts = <<>> THEN <<>>
    ELSE IF Len(parts) = 1 THEN parts[1]
    ELSE parts[1] \o sep \o join(sep, Tail(parts))

\* str.capitalize
capitalize(t) ==
    [i \in DOMAIN t |-> IF i = 1 THEN ToUpper(t[i]) ELSE ToLower(t[i])]

---------------------------------------------------------------------------
(* clean_text and capitalize_name *)

\* unicodedata.normalize('NFKD', c).encode('ASCII', 'ignore').decode('ASCII')
AsciiFold(c) ==
    IF IsAscii(c) THEN <<c>>
    ELSE IF c = EAcute THEN <<"e">>
    ELSE <<>>

\* re.sub(r'[^a-zA-Z0-9\s\-]', '', text)
Kept(c) == IsLower(c) \/ IsUpper(c) \/ IsDigit(c) \/ IsSpace(c) \/ c = "-"
RECURSIVE KeepOnly(_)
KeepOnly(t) ==
    IF t = <<>> THEN <<>>
    ELSE (IF Kept(Head(t)) THEN <<Head(t)>> ELSE <<>>) \o KeepOnly(Tail(t))

\* re.sub(r'\s+', ' ', text)
RECURSIVE Collapse(_)
Collapse(t) ==
    IF t = <<>> THEN <<>>
    ELSE IF IsSpace(Head(t))
    THEN <<" ">> \o Collapse(lstrip(t))
    ELSE <<Head(t)>> \o Collapse(Tail(t))

\* clean_text without the last strip
clean_text_untrimmed(text) ==
    IF text = <<>>
    THEN <<>>
    ELSE LET stripped == strip(text)
             folded == Flatten([i \in DOMAIN stripped |-> AsciiFold(stripped[i])])
         IN  Collapse(KeepOnly(folded))

clean_text(text) ==
    IF text = <<>>
    THEN <<>>
    ELSE LET stripped == strip(text)
             folded == Flatten([i \in DOMAIN stripped |-> AsciiFold(stripped[i])])
         IN  strip(Collapse(KeepOnly(folded)))

capitalize_name(name) ==
    IF name = <<>>
    THEN <<>>
    ELSE IF HasChar(name, "-")
    THEN LET parts == split(name, "-")
         IN  join(<<"-">>, [i \in DOMAIN parts |-> capitalize(parts[i])])
    ELSE capitalize(name)

---------------------------------------------------------------------------
(* The student parsers.  A parser state ps is [students, reports]: the     *)
(* records so far and the messages shown so far, each message              *)
(* <<kind, line_num>> (line_num -1 for a message about no line).           *)

FileKeywords ==
    <<"lastname", "firstname", "surname", "name", "nom", "prenom", "student">>
ManualKeywords ==
    <<"lastname", "firstname", "surname", "name", "nom", "prenom">>

\* any(keyword in first_line for keyword in header_keywords)
HasHeader(first_line, header_keywords) ==
    \E k \in DOMAIN header_keywords :
        \E i \in 1..Len(first_line), j \in 1..Len(first_line) :
            i <= j /\ Str(SubSeq(first_line, i, j)) = header_keywords[k]

IsKeyword(name_lower, header_keywords) ==
    \E k \in DOMAIN header_keywords : Str(name_lower) = header_keywords[k]

\* the loop body with a record appended only if it is not in the list yet
StudentLineDedup(ps, raw, line_num, header_keywords) ==
    LET line == strip(raw)
    IN  IF line = <<>>
        THEN ps
        ELSE IF HasChar(line, ",")
        THEN LET parts == split_once(line, ",")
                 last_name == capitalize_name(clean_text(strip(parts[1])))
                 first_name == capitalize_name(clean_text(strip(parts[2])))
             IN  IF /\ last_name # <<>> /\ first_name # <<>>
                    /\ ~IsKeyword(lower(last_name), header_keywords)
                    /\ ~IsKeyword(lower(first_name), header_keywords)
                    /\ Len(last_name) > 1 /\ Len(first_name) > 1
                    /\ \A i \in DOMAIN ps.students :
                          ps.students[i] # <<last_name, first_name>>
                 THEN [students |-> Append(ps.students, <<last_name, first_name>>),
                       reports |-> Append(ps.reports, <<"write", line_num>>)]
                 ELSE ps
        ELSE [students |-> ps.students,
              reports |-> Append(ps.reports, <<"warning", line_num>>)]

\* the body of "for line_num, line in enumerate(lines, ...)", the same in
\* the two parsers up to their keyword lists (parse_manual_students strips
\* the halves itself, parse_student_file leaves it to clean_text)
StudentLine(ps, raw, line_num, header_keywords) ==
    LET line == strip(raw)
    IN  IF line = <<>>
        THEN ps
        ELSE IF HasChar(line, ",")
        THEN LET parts == split_once(line, ",")
                 last_name == capitalize_name(clean_text(strip(parts[1])))
                 first_name == capitalize_name(clean_text(strip(parts[2])))
             IN  IF /\ last_name # <<>> /\ first_name # <<>>
                    /\ ~IsKeyword(lower(last_name), header_keywords)
                    /\ ~IsKeyword(lower(first_name), header_keywords)
                    /\ Len(last_name) > 1 /\ Len(first_name) > 1
                 THEN [students |-> Append(ps.students, <<last_name, first_name>>),
                       reports |-> Append(ps.reports, <<"write", line_num>>)]
                 ELSE ps
        ELSE [students |-> ps.students,
              reports |-> Append(ps.reports, <<"warning", line_num>>)]

RECURSIVE StudentLines(_, _, _, _, _)
StudentLines(ps, lines, k, start, header_keywords) ==
    IF k > Len(lines)
    THEN ps
    ELSE StudentLines(StudentLine(ps, lines[k], start + k - 1, header_keywords),
                      lines, k + 1, start, header_keywords)

parse_student_file(uploaded_file) ==
    LET decoded == DecodeFrom(uploaded_file, 1)
        content == decoded.text
        lines == splitlines(content)
        first_report == <<IF decoded.encoding = "latin-1 replace" THEN "warning"
                          ELSE "success", -1>>
    IN  IF lines = <<>>
        THEN [students |-> <<>>, reports |-> <<first_report, <<"error", -1>> >>,
              encoding |-> decoded.encoding]
        ELSE LET first_line == lower(strip(lines[1]))
                 has_header == HasHeader(first_line, FileKeywords)
                 body == IF has_header THEN Tail(lines) ELSE lines
                 ps0 == [students |-> <<>>,
                         reports |-> IF has_header
                                     THEN <<first_report, <<"info", 0>> >>
                                     ELSE <<first_report>>]
                 ps == StudentLines(ps0, body, 1, IF has_header THEN 1 ELSE 0,
                                    FileKeywords)
             IN  [students |-> ps.students,
                  reports |-> IF ps.students = <<>>
                              THEN Append(ps.reports, <<"error", -1>>)
                              ELSE ps.reports,
                  encoding |-> decoded.encoding]

parse_manual_students(student_text) ==
    IF student_text = <<>>
    THEN [students |-> <<>>, reports |-> <<>>]
    ELSE StudentLines([students |-> <<>>, reports |-> <<>>],
                      split(strip(student_text), LF), 1, 1, ManualKeywords)

---------------------------------------------------------------------------
(* The course parsers.  A parser state ps is [courses, reports].           *)

CourseKeywords == <<"course", "coursename", "courses", "name", "subject">>

\* str.split(): the words between runs of blanks
split_words(t) == SelectSeq(split(t, " "), LAMBDA w : w # <<>>)

\* ' '.join([word.capitalize() for word in course.split()])
capitalize_words(course) ==
    LET words == split_words(course)
    IN  join(<<" ">>, [i \in DOMAIN words |-> capitalize(words[i])])

\* the body of "for line_num, line in enumerate(lines, ...)", the same in
\* the two course parsers
CourseLine(ps, raw, line_num) ==
    LET original_course == strip(raw)
        course == clean_text(original_course)
    IN  IF course # <<>> /\ Len(course) > 1
        THEN [courses |-> Append(ps.courses, capitalize_words(course)),
              reports |-> Append(ps.reports, <<"write", line_num>>)]
        ELSE ps

RECURSIVE CourseLines(_, _, _, _)
CourseLines(ps, lines, k, start) ==
    IF k > Len(lines)
    THEN ps
    ELSE CourseLines(CourseLine(ps, lines[k], start + k - 1), lines, k + 1, start)

parse_course_file(uploaded_file) ==
    LET decoded == DecodeFrom(uploaded_file, 1)
        content == decoded.text
        lines == splitlines(content)
    IN  IF lines = <<>>
        THEN [courses |-> <<>>, reports |-> << <<"error", -1>> >>,
              encoding |-> decoded.encoding]
        ELSE LET first_line == lower(strip(lines[1]))
                 has_header == HasHeader(first_line, CourseKeywords)
                 body == IF has_header THEN Tail(lines) ELSE lines
                 ps0 == [courses |-> <<>>,
                         reports |-> IF has_header THEN << <<"info", 0>> >> ELSE <<>>]
                 ps == CourseLines(ps0, body, 1, IF has_header THEN 1 ELSE 0)
             IN  [courses |-> ps.courses,
                  reports |-> IF ps.courses = <<>>
                              THEN Append(ps.reports, <<"error", -1>>)
                              ELSE ps.reports,
                  encoding |-> decoded.encoding]

parse_manual_courses(course_text) ==
    IF course_text = <<>>
    THEN [courses |-> <<>>, reports |-> <<>>]
    ELSE CourseLines([courses |-> <<>>, reports |-> <<>>],
                     split(strip(course_text), LF), 1, 1)

---------------------------------------------------------------------------
(* The texts handed to the parsers: at most MaxLines lines, each a word or *)
(* two words around a comma.                                               *)

Words ==
    { <<>>,
      <<"a">>,
      <<"b", "o">>,
      <<"N", "o", "m">>,
      <<"N", "a", "m", "e", "s">>,
      <<" ", "s", "t", "u", "d", "e", "n", "t">>,
      <<"o", "'", "n", EAcute>>,
      <<"j", "-", "P", Eszett>> }

TextLines == Words \cup { w \o <<",">> \o v : w, v \in Words }

Texts == { join(<<LF>>, ls) : ls \in SeqsUpTo(TextLines, MaxLines) }

---------------------------------------------------------------------------
(* Initial filesystems: nothing, a file in place of the root, the root     *)
(* alone, or the root with one path already present under it, at most      *)
(* MaxPre levels deep: each ancestor a directory, the last entry a         *)
(* directory or a file, a README.txt also with content of its own.         *)

PreReadmes == { Dir, File(""), File("my own notes") }

IsReadmePath(p) == Len(p) = 4

\* p and its ancestors below the root
RECURSIVE Chain(_)
Chain(p) == IF Len(p) <= 1 THEN {} ELSE {p} \cup Chain(Parent(p))

LastKinds(p) == IF IsReadmePath(p) THEN PreReadmes ELSE {Dir, File("")}

EmptyFS == [p \in Paths |-> None]

TreesOver(p) ==
    { [q \in Paths |-> IF q = p THEN e
                       ELSE IF q = RootPath \/ q \in Chain(p) THEN Dir
                       ELSE None] : e \in LastKinds(p) }

InitFS ==
    {EmptyFS, [EmptyFS EXCEPT ![RootPath] = File("")], [EmptyFS EXCEPT ![RootPath] = Dir]}
    \cup UNION { TreesOver(p) : p \in { q \in Paths : Len(q) > 1 /\ Len(q) - 1 <= MaxPre } }

---------------------------------------------------------------------------
(* The generation run *)

NoRun ==
    [ students |-> <<>>, courses |-> <<>>, before |-> EmptyFS, raised |-> {},
      results |-> InitialResults(<<>>) ]

NotParsed ==
    [parser |-> "none", students |-> <<>>, courses |-> <<>>, reports |-> <<>>,
     encoding |-> "none"]

NotCleaned == [done |-> FALSE, text |-> <<>>]

\* the session state as the script initialises it; generation_results is
\* <<>> for None and <<results>> for a results record
NewSession ==
    [ students_data |-> <<>>, courses_data |-> <<>>,
      workspace_created |-> FALSE, generation_results |-> <<>> ]

NoTree == ""

Init ==
    /\ fs \in InitFS
    /\ prev = NoRun
    /\ last = NoRun
    /\ nruns = 0
    /\ nfaults = 0
    /\ upload = <<>>
    /\ typed = <<>>
    /\ parsed = NotParsed
    /\ cleaned = NotCleaned
    /\ session = NewSession
    /\ tree = NoTree

\* one call create_directory_structure(students, courses), under each set of
\* creation calls the environment may still refuse; o is its outcome
Call(students, courses, o) ==
    /\ fs' = o.run.fs
    /\ last' = [ students |-> students, courses |-> courses,
                 before |-> fs, raised |-> o.run.raised,
                 results |-> o.run.results ]
    /\ nfaults' = nfaults + Cardinality(o.faults)
    /\ prev' = last
    /\ nruns' = nruns + 1

\* create_directory_structure called on any two lists
Generate ==
    /\ nruns < MaxRuns
    /\ \E students \in StudentLists, courses \in CourseLists :
         \E o \in Outcomes(fs, students, courses, {}, MaxFail - nfaults) :
            Call(students, courses, o)
    /\ UNCHANGED <<upload, typed, parsed, cleaned, session, tree>>

Next == Generate

Spec == Init /\ [][Next]_vars

---------------------------------------------------------------------------
(* The parsers at work: a text is typed, or uploaded in one of two         *)
(* encodings, and one of the parsers runs over it (a parser's outcome      *)
(* depends on its text alone, so one run per text shows all there is).     *)

ParseInit ==
    /\ fs = EmptyFS
    /\ prev = NoRun
    /\ last = NoRun
    /\ nruns = 0
    /\ nfaults = 0
    /\ \E t \in Texts :
          /\ typed = t
          /\ upload \in {EncodeUtf8(t), EncodeLatin1(t)}
    /\ parsed = NotParsed
    /\ cleaned = NotCleaned
    /\ session = NewSession
    /\ tree = NoTree

ParseStudentFile ==
    /\ parsed.parser = "none"
    /\ \E r \in {parse_student_file(upload)} :
          parsed' = [parser |-> "parse_student_file",
                     students |-> r.students, courses |-> <<>>,
                     reports |-> r.reports, encoding |-> r.encoding]
    /\ UNCHANGED <<fs, prev, last, nruns, nfaults, upload, typed, cleaned, session, tree>>

ParseManualStudents ==
    /\ parsed.parser = "none"
    /\ \E r \in {parse_manual_students(typed)} :
          parsed' = [parser |-> "parse_manual_students",
                     students |-> r.students, courses |-> <<>>,
                     reports |-> r.reports, encoding |-> "none"]
    /\ UNCHANGED <<fs, prev, last, nruns, nfaults, upload, typed, cleaned, session, tree>>

ParseCourseFile ==
    /\ parsed.parser = "none"
    /\ \E r \in {parse_course_file(upload)} :
          parsed' = [parser |-> "parse_course_file",
                     students |-> <<>>, courses |-> r.courses,
                     reports |-> r.reports, encoding |-> r.encoding]
    /\ UNCHANGED <<fs, prev, last, nruns, nfaults, upload, typed, cleaned, session, tree>>

ParseManualCourses ==
    /\ parsed.parser = "none"
    /\ \E r \in {parse_manual_courses(typed)} :
          parsed' = [parser |-> "parse_manual_courses",
                     students |-> <<>>, courses |-> r.courses,
                     reports |-> r.reports, encoding |-> "none"]
    /\ UNCHANGED <<fs, prev, last, nruns, nfaults, upload, typed, cleaned, session, tree>>

\* clean_text on the typed text
CleanText ==
    /\ ~cleaned.done
    /\ cleaned' = [done |-> TRUE, text |-> clean_text(typed)]
    /\ UNCHANGED <<fs, prev, last, nruns, nfaults, upload, typed, parsed, session, tree>>

ParseNext ==
    \/ ParseStudentFile
    \/ ParseManualStudents
    \/ ParseCourseFile
    \/ ParseManualCourses
    \/ CleanText

ParseSpec == ParseInit /\ [][ParseNext]_vars

---------------------------------------------------------------------------
(* The folder tree.  The connectors and indents are written in ASCII here: *)
(* Corner stands for U+2514 U+2500 U+2500 and a space, Tee for U+251C      *)
(* U+2500 U+2500 and a space, Bar for U+2502 and three spaces.             *)

Corner == "L-- "
Tee    == "|-- "
Bar    == "|   "
Blank  == "    "

\* the names of the model in the order sorted() puts them (by code point)
NameOrder ==
    << CoursePool[2], StudentFolder(StudentPool[2]), StudentFolder(StudentPool[5]),
       CoursePool[3], StudentFolder(StudentPool[1]), StudentFolder(StudentPool[4]),
       CoursePool[1], ReadmeName, CoursePool[5], CoursePool[4],
       StudentFolder(StudentPool[3]) >>

Rank(name) == CHOOSE i \in DOMAIN NameOrder : NameOrder[i] = name

\* os.listdir
os_listdir(f, p) ==
    { q[Len(q)] : q \in { r \in DOMAIN f : Len(r) = Len(p) + 1 /\ Parent(r) = p
                                             /\ f[r].kind # "none" } }

\* sorted(names)
RECURSIVE sorted(_)
sorted(names) ==
    IF names = {} THEN <<>>
    ELSE LET first == CHOOSE n \in names : \A o \in names : Rank(n) <= Rank(o)
         IN  <<first>> \o sorted(names \ {first})

\* build_tree: the lines it appends to tree_lines
RECURSIVE build_tree(_, _, _, _)
build_tree(f, current_path, prefix, is_last) ==
    LET items == sorted(os_listdir(f, current_path))
    IN  Flatten([i \in DOMAIN items |->
            LET item == items[i]
                item_path == Join(current_path, item)
                is_last_item == (i = Len(items))
            IN  IF f[item_path].kind = "dir"
                THEN <<prefix \o (IF is_last THEN Corner ELSE Tee) \o item \o "/">>
                     \o build_tree(f, item_path,
                                   prefix \o (IF is_last_item THEN Blank ELSE Bar),
                                   is_last_item)
                ELSE <<prefix \o (IF is_last_item THEN Corner ELSE Tee) \o item>>])

\* "\n".join(tree_lines)
RECURSIVE join_lines(_)
join_lines(tree_lines) ==
    IF tree_lines = <<>> THEN ""
    ELSE IF Len(tree_lines) = 1 THEN tree_lines[1]
    ELSE tree_lines[1] \o "\n" \o join_lines(Tail(tree_lines))

generate_folder_tree(f, start_path) ==
    IF ~os_path_exists(f, start_path)
    THEN "No folders generated yet."
    ELSE join_lines(<<start_path[Len(start_path)] \o "/">>
                    \o build_tree(f, start_path, "", TRUE))

---------------------------------------------------------------------------
(* The pages.  The session holds the two lists; a file is uploaded or a    *)
(* text typed and processed, the example data loaded, everything reset, a  *)
(* workspace generated.  The workspace folder name is left at its default; *)
(* the file and the text are inputs of their handlers and are not kept.    *)

UIStudentTexts ==
    {
      <<>>,
      <<"x">>,
      <<"N", "a", "m", "e", "s", LF, "m", "u", "t", "i", "e", ",", " ",
        "j", "o", "s", "i", "a", "h">>,
      <<"k", "a", "n", "z", "i", "g", "a", ",", "b", "e", "l", "i", "s",
        "e", LF, "m", "u", "t", "i", "e", ",", "j", "o", "s", "i", "a",
        "h">> }

UICourseTexts ==
    {
      <<>>,
      <<"-">>,
      <<"p", "y", "t", "h", "o", "n", " ", "p", "r", "o", "g", "r", "a",
        "m", "m", "i", "n", "g">>,
      <<"d", "a", "t", "a", " ", "s", "c", "i", "e", "n", "c", "e", LF,
        "r", "e", "s", "e", "a", "r", "c", "h", " ", "p", "r", "o", "j",
        "e", "c", "t">> }

\* every path a generation from the pages can touch
UIPaths ==
    LET ss == Range(StudentPool)
        cs == Range(CoursePool)
    IN  {RootPath} \cup { StudentPath(x) : x \in ss }
        \cup { CoursePath(x, c) : x \in ss, c \in cs }
        \cup { ReadmePath(x, c) : x \in ss, c \in cs }

\* the parsers' records as the strings the session keeps
StudentsData(students) == [i \in DOMAIN students |-> <<Str(students[i][1]), Str(students[i][2])>>]
CoursesData(courses) == [i \in DOMAIN courses |-> Str(courses[i])]

UIInit ==
    /\ fs = [p \in UIPaths |-> None]
    /\ prev = NoRun
    /\ last = NoRun
    /\ nruns = 0
    /\ nfaults = 0
    /\ upload = <<>>
    /\ typed = <<>>
    /\ parsed = NotParsed
    /\ cleaned = NotCleaned
    /\ session = NewSession
    /\ tree = NoTree

\* show_upload_page, a student file in the uploader: an empty file is
\* refused, any other is parsed and its records, if any, kept
UploadStudentFile ==
    /\ \E t \in UIStudentTexts :
         LET student_file == EncodeUtf8(t)
             students == parse_student_file(student_file).students
         IN  session' = IF Len(student_file) # 0 /\ students # <<>>
                        THEN [session EXCEPT !.students_data = StudentsData(students)]
                        ELSE session
    /\ UNCHANGED <<fs, prev, last, nruns, nfaults, upload, typed, parsed, cleaned, tree>>

\* show_upload_page, a course file in the uploader
UploadCourseFile ==
    /\ \E t \in UICourseTexts :
         LET course_file == EncodeUtf8(t)
             courses == parse_course_file(course_file).courses
         IN  session' = IF Len(course_file) # 0 /\ courses # <<>>
                        THEN [session EXCEPT !.courses_data = CoursesData(courses)]
                        ELSE session
    /\ UNCHANGED <<fs, prev, last, nruns, nfaults, upload, typed, parsed, cleaned, tree>>

\* show_manual_input_page, "Process Students"
ProcessStudents ==
    /\ \E student_text \in UIStudentTexts :
         LET students == parse_manual_students(student_text).students
         IN  session' = IF student_text # <<>> /\ students # <<>>
                        THEN [session EXCEPT !.students_data = StudentsData(students)]
                        ELSE session
    /\ UNCHANGED <<fs, prev, last, nruns, nfaults, upload, typed, parsed, cleaned, tree>>

\* show_manual_input_page, "Process Courses"
ProcessCourses ==
    /\ \E course_text \in UICourseTexts :
         LET courses == parse_manual_courses(course_text).courses
         IN  session' = IF course_text # <<>> /\ courses # <<>>
                        THEN [session EXCEPT !.courses_data = CoursesData(courses)]
                        ELSE session
    /\ UNCHANGED <<fs, prev, last, nruns, nfaults, upload, typed, parsed, cleaned, tree>>

\* main, "Load Example Data"
LoadExampleData ==
    /\ session' = [session EXCEPT !.students_data = StudentPool,
                                  !.courses_data = CoursePool]
    /\ UNCHANGED <<fs, prev, last, nruns, nfaults, upload, typed, parsed, cleaned, tree>>

\* main, "Reset All Data"
ResetAllData ==
    /\ session' = NewSession
    /\ UNCHANGED <<fs, prev, last, nruns, nfaults, upload, typed, parsed, cleaned, tree>>

\* a page offers the generation always
HasDataAlways == TRUE

\* st.session_state.students_data and st.session_state.courses_data
HasData == session.students_data # <<>> /\ session.courses_data # <<>>

\* generate_workspace, with show_results_content at its end
generate_workspace(workspace_name) ==
    /\ nruns < MaxRuns
    /\ \E o \in Outcomes(fs, session.students_data, session.courses_data, {},
                         Min(UIMaxFail, MaxFail - nfaults)) :
         /\ Call(session.students_data, session.courses_data, o)
         /\ session' = [session EXCEPT !.workspace_created = TRUE,
                                       !.generation_results = <<o.run.results>>]
         /\ tree' = IF os_path_exists(o.run.fs, workspace_name)
                    THEN generate_folder_tree(o.run.fs, workspace_name)
                    ELSE tree
    /\ UNCHANGED <<upload, typed, parsed, cleaned>>

\* show_generation_section under the upload and the manual input pages,
\* "GENERATE DIRECTORY STRUCTURE"
GenerateFromSection ==
    /\ HasData
    /\ generate_workspace(RootPath)

\* show_results_page, "Generate Workspace Now"
GenerateFromResultsPage ==
    /\ session.generation_results = <<>>
    /\ HasData
    /\ generate_workspace(RootPath)

UINext ==
    \/ UploadStudentFile
    \/ UploadCourseFile
    \/ ProcessStudents
    \/ ProcessCourses
    \/ LoadExampleData
    \/ ResetAllData
    \/ GenerateFromSection
    \/ GenerateFromResultsPage

UISpec == UIInit /\ [][UINext]_vars

---------------------------------------------------------------------------
(* Properties of the builder *)

Distinct(q) == \A i, j \in DOMAIN q : i # j => q[i] # q[j]

TwoRuns == nruns >= 2
SameInput == last.students = prev.students /\ last.courses = prev.courses

NothingCreated(res) ==
    /\ res.students_created = 0
    /\ res.course_folders_created = 0
    /\ res.readmes_created = 0

\* the unit of student s and course c is complete in f
UnitDir(f, s, c) == os_path_exists(f, CoursePath(s, c)) /\ f[CoursePath(s, c)].kind = "dir"
ReadmeFile(f, s, c) ==
    os_path_exists(f, ReadmePath(s, c)) /\ f[ReadmePath(s, c)].kind = "file"
NonEmptyReadme(f, s, c) == ReadmeFile(f, s, c) /\ f[ReadmePath(s, c)].content # ""

(* C1, as stated: a second run with the same input creates nothing and its
   skipped-counts are the first run's created-counts.  Stated here for runs
   in which no call raised, the first from an empty filesystem. *)
C1_SkippedEqualCreated ==
    (TwoRuns /\ SameInput /\ prev.before = EmptyFS /\ prev.raised = {} /\ last.raised = {})
    => /\ NothingCreated(last.results)
       /\ last.results.students_skipped = prev.results.students_created
       /\ last.results.course_folders_skipped = prev.results.course_folders_created
       /\ last.results.readmes_skipped = prev.results.readmes_created

(* C1, amended: when no creation call raised in the first run, the second run
   with the same input creates nothing and each of its skipped-counts is the
   first run's created-count plus the first run's skipped-count. *)
C1_SecondRunSkipsAll ==
    (TwoRuns /\ SameInput /\ prev.raised = {})
    => /\ NothingCreated(last.results)
       /\ last.results.students_skipped =
            prev.results.students_created + prev.results.students_skipped
       /\ last.results.course_folders_skipped =
            prev.results.course_folders_created + prev.results.course_folders_skipped
       /\ last.results.readmes_skipped =
            prev.results.readmes_created + prev.results.readmes_skipped

\* two runs of a list with a duplicate student: the first created and skipped
C1_Witness ==
    /\ TwoRuns /\ SameInput /\ prev.raised = {}
    /\ ~Distinct(last.students)
    /\ Len(last.courses) >= 1
    /\ prev.results.students_created = 1
    /\ prev.results.students_skipped = 1
    /\ last.results.students_skipped = 2

C3_EveryUnitNonEmpty ==
    (nruns >= 1 /\ last.raised = {})
    => \A s \in Range(last.students), c \in Range(last.courses) :
          UnitDir(fs, s, c) /\ NonEmptyReadme(fs, s, c)

(* C3, amended: after a run in which no creation call raised, every
   student x course directory exists and contains a README.txt: the entry
   that was there before the run, unchanged, or else a file with the run's
   non-empty content. *)
C3_EveryUnitHasReadme ==
    (nruns >= 1 /\ last.raised = {})
    => \A s \in Range(last.students), c \in Range(last.courses) :
          /\ UnitDir(fs, s, c)
          /\ os_path_exists(fs, ReadmePath(s, c))
          /\ IF os_path_exists(last.before, ReadmePath(s, c))
             THEN fs[ReadmePath(s, c)] = last.before[ReadmePath(s, c)]
             ELSE /\ NonEmptyReadme(fs, s, c)
                  /\ fs[ReadmePath(s, c)].content = ReadmeContent(c, s[2], s[1])

\* a run over a README that was there, empty, and one that was not
C3_Witness ==
    /\ nruns >= 1 /\ last.raised = {}
    /\ \E s \in Range(last.students), c, d \in Range(last.courses) :
          /\ last.before[ReadmePath(s, c)] = File("")
          /\ fs[ReadmePath(s, c)] = File("")
          /\ last.before[ReadmePath(s, d)] = None
          /\ NonEmptyReadme(fs, s, d)

(* C4: a run deletes, renames and overwrites nothing: every entry that was
   there before the run is there after it, with the same kind and content. *)
C4_NothingLost ==
    nruns >= 1 => \A p \in Paths : last.before[p] # None => fs[p] = last.before[p]

\* a run over a README with content of its own, with a call that raised
C4_Witness ==
    /\ nruns >= 1
    /\ \E s \in Range(last.students), c \in Range(last.courses) :
          /\ last.before[ReadmePath(s, c)] = File("my own notes")
          /\ fs[ReadmePath(s, c)] = File("my own notes")
    /\ last.results.readmes_created >= 1

\* the operations of one kind that raised in the last run
RaisedOps(kind) == { op \in last.raised : op[1] = kind }

(* C5: a creation that raises is caught: the run still returns its record,
   the unit that raised adds to no created-counter, every unit is counted
   once, and every unit none of whose own calls raised is there afterwards. *)
C5_FailureIsPerUnit ==
    (nruns >= 1 /\ last.raised # {})
    => LET n == Len(last.students)
           m == Len(last.courses)
           res == last.results
       IN  /\ res.students_created + res.students_skipped = n
           /\ res.course_folders_created + res.course_folders_skipped = n * m
           /\ res.readmes_created + res.readmes_skipped = n * m
           /\ res.students_created + Cardinality(RaisedOps("student")) <= n
           /\ res.course_folders_created + Cardinality(RaisedOps("course")) <= n * m
           /\ res.readmes_created + Cardinality(RaisedOps("readme")) <= n * m
           /\ \A i \in 1..n :
                <<"student", i, 0>> \notin last.raised
                => os_path_exists(fs, StudentPath(last.students[i]))
           /\ \A i \in 1..n, j \in 1..m :
                (<<"course", i, j>> \notin last.raised /\ <<"readme", i, j>> \notin last.raised)
                => /\ os_path_exists(fs, CoursePath(last.students[i], last.courses[j]))
                   /\ os_path_exists(fs, ReadmePath(last.students[i], last.courses[j]))

\* the first course folder of the first student raised; the units after it were made
C5_Witness ==
    /\ nruns >= 1
    /\ last.raised = {<<"course", 1, 1>>, <<"readme", 1, 1>>}
    /\ Len(last.students) = 2 /\ Len(last.courses) = 2
    /\ last.results.course_folders_created = 3
    /\ last.results.readmes_created = 3
    /\ last.results.students_created = 2

(* C6: after a run in which creations raised, a run with the same input in
   which nothing raises leaves every student x course directory there with a
   non-empty README.txt.  Stated for a first run from an empty filesystem. *)
C6_RerunCompletes ==
    (TwoRuns /\ SameInput /\ prev.before = EmptyFS /\ prev.raised # {} /\ last.raised = {})
    => \A s \in Range(last.students), c \in Range(last.courses) :
          UnitDir(fs, s, c) /\ NonEmptyReadme(fs, s, c)

(* C7: with no call refused, a run over (S1, C1) followed by a run over
   (S2, C2), S1 within S2 and C1 within C2, leaves the filesystem that the
   single run over (S2, C2) leaves from the same start. *)
C7_IncrementalEqualsSingle ==
    (/\ TwoRuns /\ nfaults = 0
     /\ Range(prev.students) \subseteq Range(last.students)
     /\ Range(prev.courses) \subseteq Range(last.courses))
    => fs = create_directory_structure(prev.before, last.students, last.courses, {}).fs

\* one student and one course first, then both students and both courses,
\* over a start that already held a README of its own
C7_Witness ==
    /\ TwoRuns /\ nfaults = 0
    /\ Len(prev.students) = 1 /\ Len(prev.courses) = 1
    /\ Range(prev.students) \subseteq Range(last.students)
    /\ Range(prev.courses) \subseteq Range(last.courses)
    /\ Cardinality(Range(last.students)) = 2 /\ Cardinality(Range(last.courses)) = 2
    /\ prev.results.readmes_created = 1
    /\ last.results.readmes_created = 3
    /\ last.results.students_skipped = 1

\* the directories and the files at one depth under the root
DirsAt(f, depth) == { p \in Paths : Len(p) = depth /\ f[p].kind = "dir" }
FilesAt(f, depth) == { p \in Paths : Len(p) = depth /\ f[p].kind = "file" }

(* C8: n distinct students and m distinct courses built into a root that is
   not there, with no call raising, create exactly n student folders, n*m
   course folders and n*m READMEs, and the record says so with no skip. *)
C8_FreshBuildCounts ==
    (/\ nruns >= 1 /\ last.before = EmptyFS /\ last.raised = {}
     /\ Distinct(last.students) /\ Distinct(last.courses))
    => LET n == Len(last.students)
           m == Len(last.courses)
       IN  /\ last.results = [ students_processed |-> n,
                               students_created |-> n,
                               students_skipped |-> 0,
                               course_folders_created |-> n * m,
                               course_folders_skipped |-> 0,
                               readmes_created |-> n * m,
                               readmes_skipped |-> 0 ]
           /\ Cardinality(DirsAt(fs, 2)) = n
           /\ Cardinality(DirsAt(fs, 3)) = n * m
           /\ Cardinality(FilesAt(fs, 4)) = n * m
           /\ \A p \in Paths : fs[p].kind = "file" => Len(p) = 4 /\ fs[p].content # ""

\* the spec's scenario: 2 students, 2 courses
C8_Witness ==
    /\ nruns >= 1 /\ last.before = EmptyFS /\ last.raised = {}
    /\ last.students = <<StudentPool[1], StudentPool[2]>>
    /\ last.courses = <<CoursePool[1], CoursePool[2]>>
    /\ last.results.students_created = 2
    /\ last.results.course_folders_created = 4
    /\ last.results.readmes_created = 4

---------------------------------------------------------------------------
(* Properties of the student parsers *)

Parsed == parsed.parser \in {"parse_student_file", "parse_manual_students"}

OnlyNameChars(token) ==
    \A i \in DOMAIN token :
        IsLower(token[i]) \/ IsUpper(token[i]) \/ IsDigit(token[i])
            \/ token[i] = " " \/ token[i] = "-"

(* C9: every record a student parser returns is a pair of tokens, each
   non-empty, longer than one character, made of letters, digits, spaces and
   hyphens only, and none equal, whatever the case, to lastname, firstname,
   surname, name, nom, prenom or student. *)
C9_RecordsAreNames ==
    Parsed =>
        \A k \in DOMAIN parsed.students :
            /\ Len(parsed.students[k]) = 2
            /\ \A h \in 1..2 :
                 LET token == parsed.students[k][h]
                 IN  /\ token # <<>>
                     /\ Len(token) > 1
                     /\ OnlyNameChars(token)
                     /\ ~IsKeyword(lower(token), FileKeywords)

\* the lines the last parser run went through, and the number of the first
ParsedLines ==
    IF parsed.parser = "parse_manual_students"
    THEN IF typed = <<>> THEN <<>> ELSE split(strip(typed), LF)
    ELSE LET lines == splitlines(DecodeFrom(upload, 1).text)
         IN  IF lines # <<>> /\ HasHeader(lower(strip(lines[1])), FileKeywords)
             THEN Tail(lines)
             ELSE lines

FirstLineNum ==
    IF parsed.parser = "parse_manual_students" THEN 1
    ELSE LET lines == splitlines(DecodeFrom(upload, 1).text)
         IN  IF lines # <<>> /\ HasHeader(lower(strip(lines[1])), FileKeywords)
             THEN 1
             ELSE 0

ReportedAs(kinds, line_num) ==
    \E i \in DOMAIN parsed.reports :
        parsed.reports[i][1] \in kinds /\ parsed.reports[i][2] = line_num

(* C10: every non-empty line a student parser rejects is reported, by a
   warning or an information message for that line, and is left out of the
   records; the lines after it are parsed all the same (each of them is
   accepted or reported in its turn). *)
C10_RejectedLinesReported ==
    Parsed =>
        /\ \A k \in DOMAIN ParsedLines :
             LET line_num == FirstLineNum + k - 1
             IN  (strip(ParsedLines[k]) # <<>> /\ ~ReportedAs({"write"}, line_num))
                     => ReportedAs({"warning", "info"}, line_num)
        /\ Len(parsed.students)
             = Cardinality({ i \in DOMAIN parsed.reports : parsed.reports[i][1] = "write" })

\* the lines of the uploaded file, as the file parsers split them (line k of
\* the file is reported with number k - 1, header or not)
UploadLines == splitlines(DecodeFrom(upload, 1).text)

\* index of the first line of lines that is not blank, 0 if there is none
RECURSIVE FirstNonEmpty(_, _)
FirstNonEmpty(lines, k) ==
    IF k > Len(lines) THEN 0
    ELSE IF strip(lines[k]) # <<>> THEN k
    ELSE FirstNonEmpty(lines, k + 1)

KeywordsOf(parser) ==
    IF parser = "parse_course_file" THEN CourseKeywords ELSE FileKeywords

FileParsed == parsed.parser \in {"parse_student_file", "parse_course_file"}

(* C11: a file parser looks for the header on the first line of the file
   that is not blank: if that line contains a keyword of the record kind,
   whatever the case, the line is skipped as the header and gives no record;
   no other line is skipped as a header. *)
C11_HeaderOnFirstNonEmptyLine ==
    FileParsed =>
        LET k == FirstNonEmpty(UploadLines, 1)
            header == k > 0 /\ HasHeader(lower(strip(UploadLines[k])),
                                         KeywordsOf(parsed.parser))
        IN  /\ header => ~ReportedAs({"write"}, k - 1)
            /\ ReportedAs({"info"}, 0) <=> header

(* C12: on a text already decoded, a manual parser returns the list the
   file parser of the same kind returns on the bytes of that text. *)
C12_ManualEqualsFile ==
    /\ parsed.parser = "parse_manual_students"
         => parsed.students = parse_student_file(EncodeUtf8(typed)).students
    /\ parsed.parser = "parse_manual_courses"
         => parsed.courses = parse_course_file(EncodeUtf8(typed)).courses

(* C13: on every text, the empty one included, clean_text returns a text
   that is empty or made of letters, digits, spaces and hyphens only, with
   no space at either end and no two blanks in a row. *)
C13_CleanTextIsClean ==
    cleaned.done =>
        LET out == cleaned.text
        IN  /\ OnlyNameChars(out)
            /\ out # <<>> => (out[1] # " " /\ out[Len(out)] # " ")
            /\ \A i \in 1..(Len(out) - 1) : ~(IsSpace(out[i]) /\ IsSpace(out[i + 1]))

\* a text with an accent, an apostrophe, a comma and a line break before a
\* space, cleaned to two words
C13_Witness ==
    /\ cleaned.done
    /\ HasChar(typed, EAcute) /\ HasChar(typed, "'") /\ HasChar(typed, ",")
    /\ \E i \in 1..(Len(typed) - 1) : typed[i] = LF /\ typed[i + 1] = " "
    /\ HasChar(cleaned.text, " ")
    /\ Len(cleaned.text) < Len(typed) - 2

(* C15: a file parser tries utf-8, latin-1, cp1252 and iso-8859-1 in that
   order and parses the text of the first that decodes the upload; the lossy
   Latin-1 reading is used only when all four fail; and an upload that is
   not UTF-8 is parsed all the same: the records are those of its text. *)
C15_FirstEncodingThatDecodes ==
    FileParsed =>
        /\ \/ \E k \in DOMAIN Encodings :
                /\ parsed.encoding = Encodings[k]
                /\ Decode(upload, Encodings[k]).ok
                /\ \A j \in 1..(k - 1) : ~Decode(upload, Encodings[j]).ok
                /\ Decode(upload, Encodings[k]).text = typed
           \/ /\ parsed.encoding = "latin-1 replace"
              /\ \A j \in DOMAIN Encodings : ~Decode(upload, Encodings[j]).ok
        /\ parsed.parser = "parse_student_file"
             => parsed.students = parse_student_file(EncodeUtf8(typed)).students
        /\ parsed.parser = "parse_course_file"
             => parsed.courses = parse_course_file(EncodeUtf8(typed)).courses

\* an upload in Latin-1 that is not UTF-8, read as Latin-1, with a record
\* whose accent was folded
C15_Witness ==
    /\ parsed.parser = "parse_student_file"
    /\ ~DecodeUtf8(upload).ok
    /\ parsed.encoding = "latin-1"
    /\ HasChar(typed, EAcute)
    /\ \E i \in DOMAIN parsed.students : parsed.students[i][1] = <<"O", "n", "e">>

\* the lines the last parser run went through (a file parser leaves out the
\* header it detected)
LinesParsed ==
    IF parsed.parser \in {"parse_manual_students", "parse_manual_courses"}
    THEN IF typed = <<>> THEN <<>> ELSE split(strip(typed), LF)
    ELSE IF /\ UploadLines # <<>>
            /\ HasHeader(lower(strip(UploadLines[1])), KeywordsOf(parsed.parser))
    THEN Tail(UploadLines)
    ELSE UploadLines

\* the records of one line alone: none or one
StudentsOfLine(raw) ==
    StudentLine([students |-> <<>>, reports |-> <<>>], raw, 0,
                IF parsed.parser = "parse_manual_students" THEN ManualKeywords
                ELSE FileKeywords).students

CoursesOfLine(raw) == CourseLine([courses |-> <<>>, reports |-> <<>>], raw, 0).courses

(* C16: each of the four parsers returns the records of its lines in the
   order of the lines, one record for every accepted line: the output is the
   records of the first line, then those of the second, and so on, with
   nothing reordered and no equal record dropped. *)
C16_RecordsInLineOrder ==
    \A lines \in {LinesParsed} :
        /\ Parsed =>
             parsed.students = Flatten([k \in DOMAIN lines |-> StudentsOfLine(lines[k])])
        /\ parsed.parser \in {"parse_course_file", "parse_manual_courses"} =>
             parsed.courses = Flatten([k \in DOMAIN lines |-> CoursesOfLine(lines[k])])

\* two equal lines, both accepted: the same record twice in the output
C16_Witness ==
    /\ Parsed
    /\ Len(parsed.students) = 2
    /\ parsed.students[1] = parsed.students[2]
    /\ Len(LinesParsed) = 2

(* C17: the counters of every run add up, duplicate records and refused
   creations included: students_processed is the number of student records
   and is students_created + students_skipped, and the course folder
   counters, like the README counters, add up to students x courses. *)
C17_CountersAddUp ==
    nruns >= 1 =>
        LET res == last.results
        IN  /\ res.students_processed = Len(last.students)
            /\ res.students_processed = res.students_created + res.students_skipped
            /\ res.course_folders_created + res.course_folders_skipped
                 = Len(last.students) * Len(last.courses)
            /\ res.readmes_created + res.readmes_skipped
                 = Len(last.students) * Len(last.courses)

\* a run over a duplicate student with a creation refused
C17_Witness ==
    /\ nruns >= 1
    /\ ~Distinct(last.students)
    /\ Len(last.courses) = 2
    /\ last.raised # {}
    /\ last.results.readmes_created >= 1
    /\ last.results.readmes_skipped >= 1

\* the lines under a directory as the rule of C14 draws them: every child,
\* file or directory, with Corner if it is the last of its sorted siblings
\* and Tee if not; under a last child the indent grows by Blank, else by Bar
RECURSIVE TreeByRule(_, _, _)
TreeByRule(f, current_path, prefix) ==
    LET items == sorted(os_listdir(f, current_path))
    IN  Flatten([i \in DOMAIN items |->
            LET item_path == Join(current_path, items[i])
                connector == IF i = Len(items) THEN Corner ELSE Tee
            IN  IF f[item_path].kind = "dir"
                THEN <<prefix \o connector \o items[i] \o "/">>
                     \o TreeByRule(f, item_path,
                                   prefix \o (IF i = Len(items) THEN Blank ELSE Bar))
                ELSE <<prefix \o connector \o items[i]>>])

(* C14: generate_folder_tree lists the children of every directory in
   sorted order and draws each child, file or directory, with the corner
   connector exactly when it is the last of its sorted siblings and with the
   tee otherwise; below a last sibling the indent grows by blanks, below any
   other by a bar. *)
C14_TreeConnectors ==
    (tree # NoTree /\ os_path_exists(fs, RootPath))
    => tree = join_lines(<<BaseFolder \o "/">> \o TreeByRule(fs, RootPath, ""))

(* C18: whatever is done on the pages (files uploaded, texts processed, the
   example data loaded, everything reset, a workspace generated),
   create_directory_structure is only ever called with a student list and a
   course list that are both non-empty. *)
C18_GenerateOnlyWithData ==
    nruns >= 1 => (last.students # <<>> /\ last.courses # <<>>)

\* two generations over different lists, then a reset: the lists are empty
\* and no generation is on offer
C18_Witness ==
    /\ nruns = 2
    /\ last.students # prev.students
    /\ last.courses # prev.courses
    /\ session = NewSession
    /\ ~HasData

====
